---- MODULE Spec2Model ----
(***************************************************************************)
(* Model of nevergrad/functions/images/core.py: the three image experiment *)
(* functions (Image, ImageAdversarial, ImageFromPGAN) and the generator    *)
(* ImageAdversarial.make_folder_functions.                                  *)
(*                                                                         *)
(* Numbers: pixel intensities of classifier inputs and perturbations are   *)
(* fixed point in hundredths (1.0 is PixelOne, 0.05 is 5).  Tensors are    *)
(* records of a shape and NPix sample values.  The pretrained networks are *)
(* black boxes of third-party libraries; they are represented by small     *)
(* integer linear classifiers (Forward) and by opaque values.              *)
(* Record constructors list their fields in one fixed order throughout.    *)
(***************************************************************************)
EXTENDS Integers, Sequences, FiniteSets, TLC

\* ---------------------------------------------------------------- bounds
NPix == 2            \* sample values kept per tensor
NumClasses == 3      \* classes of a classifier's output
NumWeights == 2      \* distinct weight initialisations of a classifier
MaxIndex == 1        \* largest problem index tried
NumSeeds == 2        \* distinct random draws of a noise vector
NumItems == 3        \* images in a folder's dataset

\* ------------------------------------------------------ program constants
ImSize == 224        \* imsize of make_folder_functions
NoiseDim == 512      \* second dimension of noise_shape
DomainSide == 256    \* first two dimensions of Image.domain_shape
Eps05 == 5           \* epsilon = 0.05, in hundredths
PixelOne == 100      \* upper clamp 1, in hundredths
Float32Exact == 16777216   \* 2^24: integers up to here are exact in float32

None == [cls |-> "None"]

Pixels == 1..NPix
Classes == 0..(NumClasses - 1)

Abs(n) == IF n < 0 THEN -n ELSE n

RECURSIVE SumTo(_, _)
SumTo(f, n) == IF n = 0 THEN 0 ELSE f[n] + SumTo(f, n - 1)

\* ------------------------------------------------------------ Image
\* the pixels of headrgb_olivier.png after resizing, 4th channel dropped
ReferenceData == [shape |-> <<DomainSide, DomainSide, 3>>,
                  pix |-> [i \in Pixels |-> (i * 37) % 256]]

\* SumAbsoluteDifferencesLoss(reference)(x)
SumAbsoluteDifferencesLoss(reference, x) ==
    SumTo([i \in Pixels |-> Abs(x.pix[i] - reference.pix[i])], NPix)

\* ng.p.Array(init=128 * ones(domain_shape)) with its mutation, bounds and
\* recombination settings
ImageParametrization(domain_shape) ==
    [init |-> [shape |-> domain_shape, pix |-> [i \in Pixels |-> 128]],
     sigma |-> 35, lower |-> 0, upper |-> 25599, name |-> ""]

\* Image.__init__ with the check of index left out
Image_init_any_index(problem_name, index, loss) ==
    IF problem_name # "recovering" THEN [outcome |-> "AssertionError", result |-> None]
    ELSE [outcome |-> "ok",
          result |-> [cls |-> "Image",
                      domain_shape |-> <<DomainSide, DomainSide, 3>>,
                      problem_name |-> problem_name,
                      index |-> index,
                      data |-> ReferenceData,
                      function |-> "_loss",
                      parametrization |-> ImageParametrization(<<DomainSide, DomainSide, 3>>),
                      init_kwargs |-> [problem_name |-> problem_name, index |-> index,
                                       loss |-> loss],
                      descriptors |-> [problem_name |-> problem_name, index |-> index,
                                       loss |-> loss],
                      loss_function |-> [reference |-> ReferenceData, name |-> loss]]]

\* Image.__init__: the outcome of the constructor call
Image_init(problem_name, index, loss) ==
    IF problem_name # "recovering" THEN [outcome |-> "AssertionError", result |-> None]
    ELSE IF index # 0 THEN [outcome |-> "AssertionError", result |-> None]
    ELSE LET domain_shape == <<DomainSide, DomainSide, 3>>
             data == ReferenceData
         IN [outcome |-> "ok",
             result |-> [cls |-> "Image",
                         domain_shape |-> domain_shape,
                         problem_name |-> problem_name,
                         index |-> index,
                         data |-> data,
                         function |-> "_loss",
                         parametrization |-> ImageParametrization(domain_shape),
                         init_kwargs |-> [problem_name |-> problem_name, index |-> index,
                                          loss |-> loss],
                         descriptors |-> [problem_name |-> problem_name, index |-> index,
                                          loss |-> loss],
                         loss_function |-> [reference |-> data, name |-> loss]]]

\* Image._loss: the object after the call and the value returned
Image_loss(self, x) ==
    [outcome |-> "ok", self |-> self,
     ret |-> SumAbsoluteDifferencesLoss(self.loss_function.reference, x)]

\* ------------------------------------------------------ classifiers
\* entries of the weight matrix and bias of the k-th initialisation (0: the
\* pretrained weights)
Weight(k, c, i) == ((k + c + i) % 3) - 1
Bias(k, c) == (k * (c + 1)) % 3

\* Resnet50(): pretrained weights, always the same ones
Resnet50 == [kind |-> "resnet50", w |-> 0]

\* TestClassifier(): a freshly initialised nn.Linear, one of NumWeights draws
TestClassifier(k) == [kind |-> "test", w |-> k]

Classifiers == {Resnet50} \cup {TestClassifier(k) : k \in 1..NumWeights}

\* classifier(batch) for a batch of one image: the row of class scores
Forward(classifier, pix) ==
    [c \in Classes |->
        Bias(classifier.w, c)
        + SumTo([i \in Pixels |-> Weight(classifier.w, c, i) * pix[i]], NPix)]

RECURSIVE MaxOf(_, _)
MaxOf(f, n) == IF n = 0 THEN f[0] ELSE LET m == MaxOf(f, n - 1) IN IF f[n] > m THEN f[n] ELSE m

\* torch.max(output, axis=1): the largest score and the first index holding it
TorchMax(output) ==
    LET m == MaxOf(output, NumClasses - 1)
    IN [values |-> m,
        indices |-> CHOOSE c \in Classes :
                        /\ output[c] = m
                        /\ \A d \in Classes : output[d] = m => c <= d]

RECURSIVE Pow2(_)
Pow2(n) == IF n = 0 THEN 1 ELSE 2 * Pow2(n - 1)

RECURSIVE ILog2(_)
ILog2(n) == IF n <= 1 THEN 0 ELSE 1 + ILog2(n \div 2)

\* nn.CrossEntropyLoss()(output, label) = log(sum_c exp(output[c])) - output[label],
\* in base 2 and rounded down; terms more than 20 below the largest underflow to 0
CrossEntropyLoss(output, label) ==
    LET m == MaxOf(output, NumClasses - 1)
        term(c) == IF m - output[c] > 20 THEN 0 ELSE Pow2(20 - (m - output[c]))
        total == SumTo([j \in 1..NumClasses |-> term(j - 1)], NumClasses)
    IN (ILog2(total) - 20) + m - output[label]

\* torch.clamp(v, 0, 1)
Clamp(v) == IF v < 0 THEN 0 ELSE IF v > PixelOne THEN PixelOne ELSE v

\* torch.Tensor([label]): the nearest float32 (ties to even)
Float32(n) ==
    IF Abs(n) <= Float32Exact THEN n
    ELSE IF n % 2 = 0 THEN n
    ELSE IF (n \div 2) % 2 = 0 THEN 2 * (n \div 2) ELSE 2 * (n \div 2) + 2

\* ------------------------------------------------------ ImageAdversarial
\* ng.p.Array(init=zeros(image.shape)) with its mutation and bounds settings
AdversarialParametrization(image, epsilon) ==
    [init |-> [shape |-> image.shape, pix |-> [i \in Pixels |-> 0]],
     lower |-> -epsilon, upper |-> epsilon, name |-> "", sigma_tenths |-> epsilon]

\* ImageAdversarial.__init__
ImageAdversarial_init(classifier, image, label, targeted, epsilon) ==
    [outcome |-> "ok",
     result |-> [cls |-> "ImageAdversarial",
                 function |-> "_loss",
                 parametrization |-> AdversarialParametrization(image, epsilon),
                 init_kwargs |-> [classifier |-> classifier, label |-> label,
                                  image |-> image, epsilon |-> epsilon,
                                  targeted |-> targeted, tags |-> None],
                 descriptors |-> [label |-> label, epsilon |-> epsilon,
                                  targeted |-> targeted, folder |-> "", model |-> ""],
                 classifier |-> classifier,
                 label |-> Float32(label),
                 image |-> image,
                 epsilon |-> epsilon,
                 targeted |-> targeted,
                 criterion |-> "CrossEntropyLoss",
                 imsize |-> image.shape[2],
                 init_func |-> "ImageAdversarial"]]

\* _get_classifier_output adding the perturbation to self.image in place
ImageAdversarial_get_classifier_output_inplace(self, x) ==
    LET image_adv == [i \in Pixels |-> Clamp(self.image.pix[i] + x.pix[i])]
    IN [outcome |-> "ok", self |-> [self EXCEPT !.image.pix = image_adv],
        ret |-> Forward(self.classifier, image_adv)]

\* ImageAdversarial._get_classifier_output
ImageAdversarial_get_classifier_output(self, x) ==
    LET y == x.pix
        image_adv == [i \in Pixels |-> Clamp(self.image.pix[i] + y[i])]
    IN [outcome |-> "ok", self |-> self, ret |-> Forward(self.classifier, image_adv)]

\* _loss without the sign flip of untargeted attacks
ImageAdversarial_loss_unsigned(self, x) ==
    LET r == ImageAdversarial_get_classifier_output(self, x)
    IN IF r.self.label \notin Classes
       THEN [outcome |-> "IndexError", self |-> r.self, ret |-> 0]
       ELSE [outcome |-> "ok", self |-> r.self,
             ret |-> CrossEntropyLoss(r.ret, r.self.label)]

\* ImageAdversarial._loss
ImageAdversarial_loss(self, x) ==
    LET r == ImageAdversarial_get_classifier_output(self, x)
        output_adv == r.ret
    IN IF r.self.label \notin Classes
       THEN [outcome |-> "IndexError", self |-> r.self, ret |-> 0]
       ELSE LET value == CrossEntropyLoss(output_adv, r.self.label)
            IN [outcome |-> "ok", self |-> r.self,
                ret |-> value * (IF r.self.targeted THEN 1 ELSE -1)]

\* evaluation_function that ignores the targeted flag
ImageAdversarial_evaluation_function_untargeted(self, x) ==
    LET r == ImageAdversarial_get_classifier_output(self, x)
        pred == TorchMax(r.ret).indices
    IN [outcome |-> "ok", self |-> r.self,
        ret |-> IF pred # r.self.label THEN 1 ELSE 0]

\* ImageAdversarial.evaluation_function; 1 and 0 stand for 1.0 and 0.0
ImageAdversarial_evaluation_function(self, x) ==
    LET r == ImageAdversarial_get_classifier_output(self, x)
        output_adv == r.ret
        pred == TorchMax(output_adv).indices
        actual == r.self.label
        flag == IF r.self.targeted THEN pred = actual ELSE pred # actual
    IN [outcome |-> "ok", self |-> r.self, ret |-> IF flag THEN 1 ELSE 0]

\* ImageAdversarial._with_tag
ImageAdversarial_with_tag(tags, classifier, image, label, targeted, epsilon) ==
    LET func == ImageAdversarial_init(classifier, image, label, targeted, epsilon).result
    IN [func EXCEPT !.descriptors.folder = tags.folder,
                    !.descriptors.model = tags.model,
                    !.init_func = "ImageAdversarial._with_tag",
                    !.init_kwargs.tags = tags]

\* ------------------------------------------------------ ImageFromPGAN
NoiseShape == <<1, NoiseDim>>

\* numpy arrays offered as initial_noise or as candidates: a shape, the draw
\* that produced the values and the element type
NoiseArrays(shapes) ==
    [shape : shapes, seed : 1..NumSeeds, dtype : {"float64"}]

\* torch.hub.load('facebookresearch/pytorch_GAN_zoo:hub', 'PGAN', ...)
HubLoadPGAN(useGPU) ==
    [name |-> "PGAN", useGPU |-> useGPU, model_name |-> "celebAHQ-512",
     pretrained |-> TRUE]

\* Koncept512Loss()(image): the quality score of an image
Koncept512Loss(image) == (image.noise.seed * 7) % 5

\* ImageFromPGAN.__init__ with the shape assertion left out
ImageFromPGAN_init_unchecked(initial_noise, use_gpu, scorer, mutable_sigma, n_mutations, cuda_available, draw) ==
    LET use_gpu1 == IF cuda_available THEN FALSE ELSE use_gpu
        initial_noise1 == IF initial_noise = None
                          THEN [shape |-> NoiseShape, seed |-> draw, dtype |-> "float64"]
                          ELSE initial_noise
        kwargs == [initial_noise |-> initial_noise1, use_gpu |-> use_gpu1,
                   scorer |-> scorer, mutable_sigma |-> mutable_sigma,
                   n_mutations |-> n_mutations]
    IN [outcome |-> "ok",
        result |-> [cls |-> "ImageFromPGAN",
                    function |-> "_loss",
                    parametrization |-> [init |-> initial_noise1,
                                         sigma |-> n_mutations,
                                         name |-> "", mutable_sigma |-> mutable_sigma],
                    init_kwargs |-> kwargs,
                    descriptors |-> kwargs,
                    loss_function |-> [name |-> scorer],
                    pgan_model |-> HubLoadPGAN(use_gpu1),
                    noise_shape |-> NoiseShape]]

\* ImageFromPGAN.__init__; cuda_available is torch.cuda.is_available() and
\* draw is the outcome of np.random.normal
ImageFromPGAN_init(initial_noise, use_gpu, scorer, mutable_sigma, n_mutations, cuda_available, draw) ==
    LET use_gpu1 == IF cuda_available THEN FALSE ELSE use_gpu
        pgan_model == HubLoadPGAN(use_gpu1)
        noise_shape == NoiseShape
        initial_noise1 == IF initial_noise = None
                          THEN [shape |-> noise_shape, seed |-> draw, dtype |-> "float64"]
                          ELSE initial_noise
    IN IF initial_noise1.shape # noise_shape
       THEN [outcome |-> "AssertionError", result |-> None]
       ELSE [outcome |-> "ok",
             result |-> [cls |-> "ImageFromPGAN",
                         function |-> "_loss",
                         parametrization |-> [init |-> initial_noise1,
                                              sigma |-> n_mutations,
                                              name |-> "", mutable_sigma |-> mutable_sigma],
                         init_kwargs |-> [initial_noise |-> initial_noise1,
                                          use_gpu |-> use_gpu1, scorer |-> scorer,
                                          mutable_sigma |-> mutable_sigma,
                                          n_mutations |-> n_mutations],
                         descriptors |-> [initial_noise |-> initial_noise1,
                                          use_gpu |-> use_gpu1, scorer |-> scorer,
                                          mutable_sigma |-> mutable_sigma,
                                          n_mutations |-> n_mutations],
                         loss_function |-> [name |-> scorer],
                         pgan_model |-> pgan_model,
                         noise_shape |-> noise_shape]]

\* ImageFromPGAN._generate_images
ImageFromPGAN_generate_images(self, x) ==
    LET noise == [x EXCEPT !.dtype = "float32"]
    IN [outcome |-> "ok", self |-> self,
        ret |-> [noise |-> noise, generator |-> self.pgan_model.model_name,
                 device |-> "cpu"]]

\* ImageFromPGAN._loss
ImageFromPGAN_loss(self, x) ==
    LET r == ImageFromPGAN_generate_images(self, x)
        image == r.ret
        loss == Koncept512Loss(image)
    IN [outcome |-> "ok", self |-> r.self, ret |-> loss]

\* ---------------------------------------------------------------- state
VARIABLES
    obj,     \* the experiment function last constructed, or None
    built,   \* its reference artifacts as they were when construction finished
    call,    \* the last call: operation, arguments, outcome, value returned
    gen      \* the generator returned by make_folder_functions, or None

vars == <<obj, built, call, gen>>

\* the reference artifacts and configuration fields of an experiment function
Reference(o) ==
    IF o.cls = "Image" THEN [domain_shape |-> o.domain_shape, data |-> o.data]
    ELSE IF o.cls = "ImageAdversarial"
    THEN [classifier |-> o.classifier, label |-> o.label, image |-> o.image,
          epsilon |-> o.epsilon, targeted |-> o.targeted, imsize |-> o.imsize]
    ELSE IF o.cls = "ImageFromPGAN"
    THEN [pgan_model |-> o.pgan_model, noise_shape |-> o.noise_shape]
    ELSE None

NoCall == [outcome |-> "ok", ret |-> None, op |-> "none", args |-> None]

Init ==
    /\ obj = None
    /\ built = None
    /\ call = NoCall
    /\ gen = None

\* the caller's variable after `f = Cls(...)`: bound only when no exception
Construct(op, args, r) ==
    /\ call' = [outcome |-> r.outcome, ret |-> r.result, op |-> op, args |-> args]
    /\ obj' = IF r.outcome = "ok" THEN r.result ELSE obj
    /\ built' = IF r.outcome = "ok" THEN Reference(r.result) ELSE built
    /\ UNCHANGED gen

\* a method call on the experiment function
Method(op, x, r) ==
    /\ call' = [outcome |-> r.outcome, ret |-> r.ret, op |-> op, args |-> [x |-> x]]
    /\ obj' = r.self
    /\ UNCHANGED <<built, gen>>

\* ------------------------------------------------------ inputs tried
ProblemNames == {"recovering", "denoising"}
Indices == 0..MaxIndex
ImageCandidates ==
    [shape : {<<DomainSide, DomainSide, 3>>}, pix : [Pixels -> {0, 128, 255}]]

AdvImages ==
    [shape : {<<3, ImSize, ImSize>>},
     pix : {[i \in Pixels |-> 0], [i \in Pixels |-> (PixelOne \div i) - 4 * (i - 1)]}]
Labels == Classes \cup {Float32Exact + 1}
Epsilons == {Eps05}
AdvCandidates(o) ==
    [shape : {o.image.shape}, pix : [Pixels -> {-o.epsilon, 0, o.epsilon}]]

InitialNoises ==
    {None} \cup NoiseArrays({NoiseShape, <<NoiseDim>>, <<1, NoiseDim - 1>>})

\* ------------------------------------------------------ constructor calls
NewImage ==
    \E problem_name \in ProblemNames, index \in Indices :
        Construct("Image", [problem_name |-> problem_name, index |-> index],
                  Image_init(problem_name, index, "SumAbsoluteDifferencesLoss"))

NewImageAdversarial ==
    \E classifier \in Classifiers, image \in AdvImages, label \in Labels,
       targeted \in BOOLEAN, epsilon \in Epsilons :
        Construct("ImageAdversarial",
                  [classifier |-> classifier, label |-> label, image |-> image,
                   epsilon |-> epsilon, targeted |-> targeted],
                  ImageAdversarial_init(classifier, image, label, targeted, epsilon))

NewImageFromPGAN ==
    \E initial_noise \in InitialNoises, use_gpu \in BOOLEAN, cuda_available \in BOOLEAN :
        \E draw \in (IF initial_noise = None THEN 1..NumSeeds ELSE {1}) :
            Construct("ImageFromPGAN",
                      [initial_noise |-> initial_noise, use_gpu |-> use_gpu,
                       cuda_available |-> cuda_available],
                      ImageFromPGAN_init(initial_noise, use_gpu, "Koncept512Loss",
                                         TRUE, 35, cuda_available, draw))

\* ------------------------------------------------------ method calls
CallImageLoss ==
    /\ obj.cls = "Image"
    /\ \E x \in ImageCandidates : Method("Image._loss", x, Image_loss(obj, x))

CallAdversarialLoss ==
    /\ obj.cls = "ImageAdversarial"
    /\ \E x \in AdvCandidates(obj) :
        Method("ImageAdversarial._loss", x, ImageAdversarial_loss(obj, x))

CallGetClassifierOutput ==
    /\ obj.cls = "ImageAdversarial"
    /\ \E x \in AdvCandidates(obj) :
        Method("ImageAdversarial._get_classifier_output", x,
               ImageAdversarial_get_classifier_output(obj, x))

CallEvaluationFunction ==
    /\ obj.cls = "ImageAdversarial"
    /\ \E x \in AdvCandidates(obj) :
        Method("ImageAdversarial.evaluation_function", x,
               ImageAdversarial_evaluation_function(obj, x))

CallPGANLoss ==
    /\ obj.cls = "ImageFromPGAN"
    /\ \E x \in NoiseArrays({NoiseShape}) :
        Method("ImageFromPGAN._loss", x, ImageFromPGAN_loss(obj, x))

CallGenerateImages ==
    /\ obj.cls = "ImageFromPGAN"
    /\ \E x \in NoiseArrays({NoiseShape}) :
        Method("ImageFromPGAN._generate_images", x, ImageFromPGAN_generate_images(obj, x))

NextObjects ==
    \/ NewImage
    \/ NewImageAdversarial
    \/ NewImageFromPGAN
    \/ CallImageLoss
    \/ CallAdversarialLoss
    \/ CallGetClassifierOutput
    \/ CallEvaluationFunction
    \/ CallPGANLoss
    \/ CallGenerateImages

SpecObjects == Init /\ [][NextObjects]_vars

\* ------------------------------------------- make_folder_functions
\* folders offered: no folder, two image folders, a path that is no directory
Folders ==
    {None,
     [name |-> "images", is_dir |-> TRUE, salt |-> 0],
     [name |-> "photos", is_dir |-> TRUE, salt |-> 1],
     [name |-> "missing", is_dir |-> FALSE, salt |-> 0]}
ModelNames == {"resnet50", "test", "vgg"}

\* torchvision.datasets.ImageFolder(folder, transform): batches of one
\* transformed image with the index of its class
ImageFolder(folder) ==
    [j \in 1..NumItems |->
        [data |-> [shape |-> <<1, 3, ImSize, ImSize>>,
                   pix |-> [i \in Pixels |-> ((j + i) * 41 + folder.salt) % (PixelOne + 1)]],
         target |-> (j + folder.salt) % NumClasses]]

\* the orders in which a shuffling loader can deliver a dataset
Shuffles(dataset) ==
    {[j \in 1..NumItems |-> dataset[p[j]]] : p \in Permutations(1..NumItems)}

\* data[0]: the image of a batch of one
FirstOfBatch(data) == [shape |-> Tail(data.shape), pix |-> data.pix]

\* the generator object a call of make_folder_functions returns: no line of
\* the body has run yet
make_folder_functions(folder, model) ==
    [folder |-> folder, model |-> model, status |-> "created", requests |-> 0,
     yielded |-> <<>>, error |-> "", frame |-> None]

\* the loop with the comparison of prediction and target inverted
RECURSIVE folder_loop_inverted(_, _)
folder_loop_inverted(g, frame) ==
    IF frame.data_loader = <<>>
    THEN [g EXCEPT !.status = "done", !.frame = None]
    ELSE LET data == Head(frame.data_loader).data
             target == Head(frame.data_loader).target
             pred == TorchMax(Forward(frame.classifier, data.pix)).indices
             rest == [frame EXCEPT !.data_loader = Tail(frame.data_loader)]
         IN IF pred # target
            THEN [g EXCEPT !.status = "suspended", !.frame = rest,
                           !.yielded = Append(@, ImageAdversarial_with_tag(
                                frame.tags, frame.classifier, FirstOfBatch(data),
                                target, FALSE, Eps05))]
            ELSE folder_loop_inverted(g, rest)

\* the loop over data_loader, from the frame's position to the next yield, or
\* to the end of the body
RECURSIVE folder_loop(_, _)
folder_loop(g, frame) ==
    IF frame.data_loader = <<>>
    THEN [g EXCEPT !.status = "done", !.frame = None]
    ELSE LET data == Head(frame.data_loader).data
             target == Head(frame.data_loader).target
             pred == TorchMax(Forward(frame.classifier, data.pix)).indices
             rest == [frame EXCEPT !.data_loader = Tail(frame.data_loader)]
         IN IF pred = target
            THEN LET func == ImageAdversarial_with_tag(frame.tags, frame.classifier,
                                                       FirstOfBatch(data), target,
                                                       FALSE, Eps05)
                 IN [g EXCEPT !.status = "suspended", !.frame = rest,
                              !.yielded = Append(@, func)]
            ELSE folder_loop(g, rest)

\* the body up to the loop with the final `else: raise ValueError` left out:
\* a path that is no directory gives an empty loader
folder_start_no_raise(g, k, has_loader, order) ==
    IF g.model \notin {"resnet50", "test"}
    THEN [g EXCEPT !.status = "raised", !.error = "AssertionError"]
    ELSE LET folder == g.folder
             tags == [folder |-> IF folder = None THEN "#FAKE#" ELSE folder.name,
                      model |-> g.model]
             classifier == IF g.model = "resnet50" THEN Resnet50 ELSE TestClassifier(k)
             x == [shape |-> <<1, 3, 224, 224>>, pix |-> [i \in Pixels |-> 0]]
             pred == TorchMax(Forward(classifier, x.pix)).indices
         IN IF folder # None /\ folder.is_dir /\ ~has_loader
            THEN [g EXCEPT !.status = "raised", !.error = "AttributeError"]
            ELSE folder_loop(g, [classifier |-> classifier, tags |-> tags,
                                 data_loader |->
                                    IF folder = None THEN <<[data |-> x, target |-> pred]>>
                                    ELSE IF folder.is_dir THEN order ELSE <<>>])

\* the body up to the loop, run by the first next(); k is the draw of
\* TestClassifier's weights, has_loader whether torch.utils has an attribute
\* DataLoader, order the permutation the loader's shuffling picks
folder_start(g, k, has_loader, order) ==
    IF g.model \notin {"resnet50", "test"}
    THEN [g EXCEPT !.status = "raised", !.error = "AssertionError"]
    ELSE LET folder == g.folder
             tags == [folder |-> IF folder = None THEN "#FAKE#" ELSE folder.name,
                      model |-> g.model]
             classifier == IF g.model = "resnet50" THEN Resnet50 ELSE TestClassifier(k)
         IN IF folder = None
            THEN LET x == [shape |-> <<1, 3, 224, 224>>, pix |-> [i \in Pixels |-> 0]]
                     pred == TorchMax(Forward(classifier, x.pix)).indices
                 IN folder_loop(g, [classifier |-> classifier, tags |-> tags,
                                    data_loader |-> <<[data |-> x, target |-> pred]>>])
            ELSE IF folder.is_dir
            THEN IF has_loader
                 THEN folder_loop(g, [classifier |-> classifier, tags |-> tags,
                                      data_loader |-> order])
                 ELSE [g EXCEPT !.status = "raised", !.error = "AttributeError"]
            ELSE [g EXCEPT !.status = "raised", !.error = "ValueError"]

\* next(generator): the body runs to its next yield, its end or an exception
generator_next(g, k, has_loader, order) ==
    LET g1 == [g EXCEPT !.requests = @ + 1]
    IN IF g.status = "created" THEN folder_start(g1, k, has_loader, order)
       ELSE folder_loop(g1, g.frame)

CallMakeFolderFunctions ==
    \E folder \in Folders, model \in ModelNames :
        /\ gen' = make_folder_functions(folder, model)
        /\ call' = [outcome |-> "ok", ret |-> None, op |-> "make_folder_functions",
                    args |-> [folder |-> folder, model |-> model]]
        /\ UNCHANGED <<obj, built>>

\* func = next(generator): the caller's variable is bound when a function is
\* yielded
CallNext ==
    /\ gen # None
    /\ gen.status \in {"created", "suspended"}
    /\ \E k \in 1..NumWeights, has_loader \in BOOLEAN :
        \E order \in (IF gen.folder # None /\ gen.folder.is_dir /\ gen.status = "created"
                      THEN Shuffles(ImageFolder(gen.folder)) ELSE {<<>>}) :
            LET g == generator_next(gen, k, has_loader, order)
                func == IF g.status = "suspended" THEN g.yielded[Len(g.yielded)] ELSE None
            IN /\ gen' = g
               /\ call' = [outcome |-> IF g.status = "raised" THEN g.error
                                       ELSE IF g.status = "done" THEN "StopIteration"
                                       ELSE "ok",
                           ret |-> func, op |-> "next", args |-> None]
               /\ obj' = IF g.status = "suspended" THEN func ELSE obj
               /\ built' = IF g.status = "suspended" THEN Reference(func) ELSE built

NextFolder ==
    \/ CallMakeFolderFunctions
    \/ CallNext

SpecFolder == Init /\ [][NextFolder]_vars

Next == NextObjects \/ NextFolder

Spec == Init /\ [][Next]_vars

\* ================================================================ claims
ValidModels == {"resnet50", "test"}

\* the class scores the experiment function o gets for the candidate x
ScoresOf(o, x) == Forward(o.classifier, [i \in Pixels |-> Clamp(o.image.pix[i] + x.pix[i])])

C2_ImageConstruction ==
    call.op = "Image" =>
        /\ (call.outcome = "ok") <=>
               (call.args.problem_name = "recovering" /\ call.args.index = 0)
        /\ call.outcome # "ok" => (call.outcome = "AssertionError" /\ call.ret = None)
        /\ call.outcome = "ok" =>
               /\ call.ret.cls = "Image"
               /\ call.ret.function = "_loss"
               /\ call.ret.parametrization.init.shape = call.ret.domain_shape
               /\ obj = call.ret

C2_Witness ==
    /\ call.op = "Image"
    /\ call.args.problem_name = "recovering"
    /\ call.args.index # 0
    /\ call.outcome = "AssertionError"
    /\ call.ret = None

\* C3: constructing ImageFromPGAN with an initial_noise whose shape is not
\* (1, 512) fails with an assertion failure; with a noise of shape (1, 512), or
\* with None (a noise of shape (1, 512) is drawn), construction succeeds and
\* the noise recorded in the initialization arguments and in the descriptors
\* is the array the parametrization is initialised with.
C3_NoiseShape ==
    call.op = "ImageFromPGAN" =>
        LET n == call.args.initial_noise
            bad == n # None /\ n.shape # <<1, 512>>
        IN /\ bad => (call.outcome = "AssertionError" /\ call.ret = None)
           /\ ~bad =>
                /\ call.outcome = "ok"
                /\ call.ret.parametrization.init.shape = <<1, 512>>
                /\ call.ret.init_kwargs.initial_noise = call.ret.parametrization.init
                /\ call.ret.descriptors.initial_noise = call.ret.parametrization.init
                /\ n # None => call.ret.parametrization.init = n

C3_Witness ==
    /\ call.op = "ImageFromPGAN"
    /\ call.args.initial_noise # None
    /\ call.args.initial_noise.shape = <<512>>
    /\ call.outcome = "AssertionError"

\* C4 as stated: make_folder_functions called with a folder that is not None
\* and no existing directory fails with a ValueError at the call itself,
\* before any element of the result is requested, and yields no function.
C4_ValueErrorAtCall ==
    (gen # None /\ gen.folder # None /\ ~gen.folder.is_dir /\ gen.model \in ValidModels) =>
        /\ gen.status = "raised"
        /\ gen.error = "ValueError"
        /\ gen.requests = 0
        /\ gen.yielded = <<>>

\* C4 as amended: with such a folder (and a supported model) the call itself
\* returns a generator without failing; the ValueError is raised when the
\* first element is requested; no function is ever yielded.
C4_ValueErrorAtFirstRequest ==
    (gen # None /\ gen.folder # None /\ ~gen.folder.is_dir /\ gen.model \in ValidModels) =>
        /\ gen.yielded = <<>>
        /\ gen.requests = 0 => (gen.status = "created" /\ gen.error = "")
        /\ gen.requests > 0 =>
               (gen.status = "raised" /\ gen.error = "ValueError" /\ gen.requests = 1)

C4_Witness ==
    /\ gen # None
    /\ gen.folder # None
    /\ ~gen.folder.is_dir
    /\ gen.model \in ValidModels
    /\ gen.requests = 1
    /\ gen.error = "ValueError"
    /\ call.op = "next"

\* C5: make_folder_functions with folder None and model "resnet50" or "test"
\* yields exactly one experiment function and then terminates; the function
\* is untargeted with epsilon 0.05, its label is the classifier's prediction
\* on its reference image, and it carries the tag folder = "#FAKE#".
C5_FakeFolderYieldsOne ==
    (gen # None /\ gen.folder = None /\ gen.model \in ValidModels) =>
        /\ gen.error = ""
        /\ gen.requests = 0 => (gen.status = "created" /\ gen.yielded = <<>>)
        /\ gen.requests = 1 => (gen.status = "suspended" /\ Len(gen.yielded) = 1)
        /\ gen.requests > 1 =>
               (gen.status = "done" /\ Len(gen.yielded) = 1 /\ gen.requests = 2)
        /\ \A n \in 1..Len(gen.yielded) :
               LET func == gen.yielded[n]
               IN /\ func.cls = "ImageAdversarial"
                  /\ ~func.targeted
                  /\ func.epsilon = 5
                  /\ func.classifier.kind = gen.model
                  /\ func.label = TorchMax(Forward(func.classifier, func.image.pix)).indices
                  /\ func.descriptors.folder = "#FAKE#"
                  /\ func.init_kwargs.tags.folder = "#FAKE#"

C5_Witness ==
    /\ gen # None
    /\ gen.folder = None
    /\ gen.model = "test"
    /\ gen.status = "done"
    /\ gen.requests = 2
    /\ Len(gen.yielded) = 1
    /\ call.outcome = "StopIteration"

\* C6: evaluation_function returns 1.0 exactly when (targeted and the class
\* predicted for the perturbed image equals label) or (not targeted and the
\* predicted class differs from label), and 0.0 otherwise.
C6_EvaluationFunction ==
    call.op = "ImageAdversarial.evaluation_function" =>
        LET pred == TorchMax(ScoresOf(obj, call.args.x)).indices
            worked == \/ (obj.targeted /\ pred = obj.label)
                      \/ (~obj.targeted /\ pred # obj.label)
        IN /\ call.outcome = "ok"
           /\ call.ret \in {0, 1}
           /\ (call.ret = 1) <=> worked

C6_Witness ==
    /\ call.op = "ImageAdversarial.evaluation_function"
    /\ obj.targeted
    /\ call.ret = 0
    /\ TorchMax(ScoresOf(obj, call.args.x)).indices # obj.label
    /\ obj.label \in Classes

\* C7 as stated: the generator is loaded with useGPU true exactly when the
\* caller passed use_gpu true, and the use_gpu recorded in the initialization
\* arguments and descriptors is the value the caller passed, whatever the
\* availability of CUDA.
C7_UseGpuAsPassed ==
    (call.op = "ImageFromPGAN" /\ call.outcome = "ok") =>
        /\ call.ret.pgan_model.useGPU = call.args.use_gpu
        /\ call.ret.init_kwargs.use_gpu = call.args.use_gpu
        /\ call.ret.descriptors.use_gpu = call.args.use_gpu

\* C8: for the same classifier, image, label and candidate, the targeted loss
\* is the cross-entropy of the classifier output against label and the
\* untargeted loss is its exact negation; the targeted loss is >= 0 and the
\* untargeted loss is <= 0.
C8_SignFlip ==
    (call.op = "ImageAdversarial._loss" /\ call.outcome = "ok") =>
        LET ce == CrossEntropyLoss(ScoresOf(obj, call.args.x), obj.label)
            twin == [obj EXCEPT !.targeted = ~obj.targeted]
        IN /\ obj.targeted => (call.ret = ce /\ call.ret >= 0)
           /\ ~obj.targeted => (call.ret = -ce /\ call.ret <= 0)
           /\ ImageAdversarial_loss(twin, call.args.x).ret = -call.ret

C8_Witness ==
    /\ call.op = "ImageAdversarial._loss"
    /\ call.outcome = "ok"
    /\ ~obj.targeted
    /\ call.ret < 0
    /\ \E i \in Pixels : call.args.x.pix[i] # 0

====
